---- MODULE Spec2Model ----
(***************************************************************************)
(* Model of the two verification scripts of sonic-architect:               *)
(*   verification/verify_shortcuts.py  (verify_shortcuts)                  *)
(*   verification/verify_animation.py  (verify_waveform_animation)         *)
(* Both share resolve_output_dir and the skeleton                          *)
(*   getenv / resolve_output_dir / with sync_playwright / launch /         *)
(*   new_page / try ... except Exception ... finally browser.close().      *)
(* A run is one process executing one of the two scripts.  The browser     *)
(* automation library and the target application are the environment:     *)
(* every automation call either returns (with a value drawn from a small   *)
(* set) or raises.  browser.close() and print are taken to complete.       *)
(*                                                                         *)
(* Strings that the code inspects (attribute values) are sequences of      *)
(* one-character strings; paths are sequences of path components.          *)
(***************************************************************************)
EXTENDS Naturals, Sequences, FiniteSets

VARIABLES
    check,        \* which script runs: "shortcuts" or "load"
    env,          \* process environment: APP_URL, VERIFICATION_OUTPUT_DIR
    dirs,         \* filesystem: the set of existing directories (absolute paths)
    files,        \* filesystem: the set of existing regular files
    pc,           \* position of the run in the script
    app_url,      \* local app_url (line 18)
    output_dir,   \* local output_dir (line 19)
    playwright,   \* the sync_playwright() context: "none", "running", "stopped"
    browser,      \* the launched browser: "none", "open", "closed"
    page,         \* the page: "none", "open"
    exc,          \* the exception in flight, as its __context__ chain, oldest first
    log,          \* the lines printed so far
    calls,        \* the automation calls made so far, each with its outcome
    written,      \* the files this run has written
    observed,     \* values read from the page: aria, title, header
    rets          \* the results of the resolve_output_dir calls made so far

vars == << check, env, dirs, files, pc, app_url, output_dir, playwright, browser,
           page, exc, log, calls, written, observed, rets >>

(***************************************************************************)
(* Bounds of the model.                                                    *)
(***************************************************************************)
\* number of resolve_output_dir calls made under SpecDir
MaxCalls == 2

(***************************************************************************)
(* Optional values: os.getenv and get_attribute return a str or None.      *)
(***************************************************************************)
None == [some |-> FALSE, val |-> <<>>]

Some(v) == [some |-> TRUE, val |-> v]

(***************************************************************************)
(* Strings.                                                                *)
(***************************************************************************)
Space == << "S", "p", "a", "c", "e" >>

TitlePlaySpace == << "P", "l", "a", "y", " ", "(", "S", "p", "a", "c", "e", ")" >>

TitlePlay == << "P", "l", "a", "y" >>

LowerSpace == << "s", "p", "a", "c", "e" >>

SpaceBar == << "S", "p", "a", "c", "e", "b", "a", "r" >>

Spac == << "S", "p", "a", "c" >>

\* the values get_attribute may return for the playback button
AttrValues == { None, Some(Space), Some(TitlePlaySpace), Some(TitlePlay),
                Some(LowerSpace), Some(SpaceBar), Some(Spac), Some(<<>>) }

\* Python's  sub in s  for str: s has sub at offset i (0-based), scanning upwards
RECURSIVE FindFrom(_, _, _)
FindFrom(sub, s, i) ==
    IF i + Len(sub) > Len(s) THEN FALSE
    ELSE IF SubSeq(s, i + 1, i + Len(sub)) = sub THEN TRUE
    ELSE FindFrom(sub, s, i + 1)

StrIn(sub, s) == FindFrom(sub, s, 0)

(***************************************************************************)
(* Environment variables.                                                  *)
(***************************************************************************)
DefaultUrl == "http://localhost:3000"

\* os.getenv(name, default): the value when the variable is set, else default
GetenvDefault(v, default) == IF v.some THEN v.val ELSE default

AppUrlValues == { None, Some(""), Some("http://localhost:4000") }

(***************************************************************************)
(* Paths.  A raw path string is [abs, parts]; the empty string has no      *)
(* parts and is not absolute.  A resolved path is the sequence of its      *)
(* components below the root.  The filesystem has no symbolic links.       *)
(***************************************************************************)
Raw(a, p) == [abs |-> a, parts |-> p]

EmptyRaw == Raw(FALSE, <<>>)

\* tempfile.gettempdir()
TempDir == << "tmp" >>

\* the home directory and the working directory of the process
HomeDir == << "home" >>

Cwd == << "work" >>

DefaultDir == TempDir \o << "sonic-architect-verification" >>

\* truthiness of a str or None (line 9)
Truthy(v) == v.some /\ (v.val.abs \/ v.val.parts # <<>>)

\* Path.expanduser: a leading ~ component becomes the home directory
ExpandUser(r) ==
    IF ~r.abs /\ r.parts # <<>> /\ Head(r.parts) = "~"
    THEN Raw(TRUE, HomeDir \o Tail(r.parts))
    ELSE r

\* normalisation of . and .. over an absolute prefix
RECURSIVE Normalize(_, _)
Normalize(acc, rest) ==
    IF rest = <<>> THEN acc
    ELSE IF Head(rest) = "." THEN Normalize(acc, Tail(rest))
    ELSE IF Head(rest) = ".."
         THEN Normalize(IF acc = <<>> THEN acc ELSE SubSeq(acc, 1, Len(acc) - 1),
                        Tail(rest))
    ELSE Normalize(Append(acc, Head(rest)), Tail(rest))

\* Path.resolve: make absolute against the working directory, then normalise
Resolve(r) == Normalize(IF r.abs THEN <<>> ELSE Cwd, r.parts)

Parent(p) == IF p = <<>> THEN p ELSE SubSeq(p, 1, Len(p) - 1)

Prefixes(p) == { SubSeq(p, 1, n) : n \in 0..Len(p) }

\* os.mkdir(p): "ok", or the OSError it raises
OsMkdir(p, d, f) ==
    IF \E q \in Prefixes(Parent(p)) : q \in f THEN "NotADirectoryError"
    ELSE IF p \in d \/ p \in f THEN "FileExistsError"
    ELSE IF Parent(p) \notin d THEN "FileNotFoundError"
    ELSE "ok"

\* mutant: mkdir(parents=True) without exist_ok, an existing directory is an error
RECURSIVE PathMkdirNoExistOk(_, _, _)
PathMkdirNoExistOk(p, d, f) ==
    LET r == OsMkdir(p, d, f) IN
    IF r = "ok" THEN [ok |-> TRUE, dirs |-> d \cup {p}]
    ELSE IF r = "FileNotFoundError"
         THEN IF Parent(p) = p THEN [ok |-> FALSE, dirs |-> d]
              ELSE LET up == PathMkdirNoExistOk(Parent(p), d, f) IN
                   IF ~up.ok THEN up
                   ELSE IF OsMkdir(p, up.dirs, f) = "ok"
                        THEN [ok |-> TRUE, dirs |-> up.dirs \cup {p}]
                        ELSE [ok |-> FALSE, dirs |-> up.dirs]
    ELSE [ok |-> FALSE, dirs |-> d]

\* Path.mkdir(parents=True, exist_ok=True): [ok, dirs]
RECURSIVE PathMkdir(_, _, _)
PathMkdir(p, d, f) ==
    LET r == OsMkdir(p, d, f) IN
    IF r = "ok" THEN [ok |-> TRUE, dirs |-> d \cup {p}]
    ELSE IF r = "FileNotFoundError"
         THEN IF Parent(p) = p THEN [ok |-> FALSE, dirs |-> d]
              ELSE LET up == PathMkdir(Parent(p), d, f) IN
                   IF ~up.ok THEN up
                   ELSE IF OsMkdir(p, up.dirs, f) = "ok"
                        THEN [ok |-> TRUE, dirs |-> up.dirs \cup {p}]
                        ELSE [ok |-> p \in up.dirs, dirs |-> up.dirs]
    ELSE [ok |-> p \in d, dirs |-> d]

\* the directory resolve_output_dir computes (lines 8-12)
OutputDirOf(configured) ==
    IF Truthy(configured)
    THEN Resolve(ExpandUser(configured.val))
    ELSE DefaultDir

\* resolve_output_dir(): [raised, path, dirs]
ResolveOutputDir(e, d, f) ==
    LET out == OutputDirOf(e.VERIFICATION_OUTPUT_DIR)
        m   == PathMkdir(out, d, f)
    IN [raised |-> ~m.ok, path |-> out, dirs |-> m.dirs]

OutDirValues ==
    { None,
      Some(EmptyRaw),
      Some(Raw(TRUE, << "tmp", "myrun" >>)),
      Some(Raw(FALSE, << "~", "out" >>)),
      Some(Raw(FALSE, << "shots", "..", "out" >>)),
      Some(Raw(TRUE, << "tmp", "f", "deep" >>)) }

BaseDirs == { <<>>, TempDir, HomeDir, Cwd }

ExtraDirs == { DefaultDir, << "tmp", "myrun" >>, << "home", "out" >> }

ExtraFiles == { DefaultDir, << "tmp", "myrun" >>, << "tmp", "f" >> }

(***************************************************************************)
(* Initial states.                                                         *)
(***************************************************************************)
InitEnvFs ==
    /\ env \in [ APP_URL : AppUrlValues, VERIFICATION_OUTPUT_DIR : OutDirValues ]
    /\ dirs \in { BaseDirs \cup x : x \in SUBSET ExtraDirs }
    /\ files \in { x \in SUBSET ExtraFiles : Cardinality(x) <= 1 /\ x \cap dirs = {} }

InitLocals ==
    /\ app_url = ""
    /\ output_dir = <<>>
    /\ playwright = "none"
    /\ browser = "none"
    /\ page = "none"
    /\ exc = <<>>
    /\ log = <<>>
    /\ calls = <<>>
    /\ written = {}
    /\ observed = [aria |-> None, title |-> None, header |-> FALSE]
    /\ rets = <<>>

Init ==
    /\ check \in { "shortcuts", "load" }
    /\ InitEnvFs
    /\ InitLocals
    /\ pc = "resolve"

(***************************************************************************)
(* Helpers of the run.                                                     *)
(***************************************************************************)
Call(op, ok) == [op |-> op, ok |-> ok]

\* the outcomes of an automation call: it returns, or raises one of these
NavFaults == { "Error" }

WaitFaults == { "TimeoutError", "Error" }

\* page.screenshot(path=...) returning: the file exists and was written by this run
Screenshot(name) ==
    /\ files' = files \cup { Append(output_dir, name) }
    /\ written' = written \cup { Append(output_dir, name) }

\* the keyboard-shortcut assertion (line 43): aria_keyshortcuts == "Space"
AriaOk(v) == v = Some(Space)

\* mutant: the title is compared for equality instead of containment
TitleCheckEquals(t) ==
    IF ~t.some THEN "TypeError"
    ELSE IF t.val = Space THEN "ok"
    ELSE "AssertionError"

\* the title assertion (line 48): "Space" in title; None is not iterable
TitleCheck(t) ==
    IF ~t.some THEN "TypeError"
    ELSE IF StrIn(Space, t.val) THEN "ok"
    ELSE "AssertionError"

(***************************************************************************)
(* Lines 18-19 (both scripts): read APP_URL, resolve the output directory. *)
(* An OSError of mkdir leaves the function before the with statement.      *)
(***************************************************************************)
ResolveConfig ==
    /\ pc = "resolve"
    /\ app_url' = GetenvDefault(env.APP_URL, DefaultUrl)
    /\ LET r == ResolveOutputDir(env, dirs, files) IN
       /\ dirs' = r.dirs
       /\ rets' = Append(rets, [raised |-> r.raised, path |-> r.path,
                                dirsBefore |-> dirs, filesBefore |-> files])
       /\ IF r.raised
          THEN /\ exc' = << "OSError" >>
               /\ pc' = "done"
               /\ UNCHANGED output_dir
          ELSE /\ output_dir' = r.path
               /\ pc' = "with"
               /\ UNCHANGED exc
    /\ UNCHANGED << check, env, files, playwright, browser, page, log, calls,
                    written, observed >>

(***************************************************************************)
(* Line 20: with sync_playwright() as p -- the driver starts, or the       *)
(* context manager raises on entry.                                        *)
(***************************************************************************)
StartPlaywright ==
    /\ pc = "with"
    /\ \/ /\ playwright' = "running"
          /\ pc' = "launch"
          /\ UNCHANGED exc
       \/ /\ exc' = << "Error" >>
          /\ pc' = "done"
          /\ UNCHANGED playwright
    /\ UNCHANGED << check, env, dirs, files, app_url, output_dir, browser, page,
                    log, calls, written, observed, rets >>

(***************************************************************************)
(* Line 21: browser = p.chromium.launch(headless=True), outside the try.   *)
(***************************************************************************)
Launch ==
    /\ pc = "launch"
    /\ \/ /\ browser' = "open"
          /\ calls' = Append(calls, Call("launch", TRUE))
          /\ pc' = "new_page"
          /\ UNCHANGED exc
       \/ /\ exc' = << "Error" >>
          /\ calls' = Append(calls, Call("launch", FALSE))
          /\ pc' = "exit"
          /\ UNCHANGED browser
    /\ UNCHANGED << check, env, dirs, files, app_url, output_dir, playwright, page,
                    log, written, observed, rets >>

(***************************************************************************)
(* Line 22: page = browser.new_page(), outside the try: a fault here       *)
(* leaves the with block without entering try/except/finally.              *)
(***************************************************************************)
NewPage ==
    /\ pc = "new_page"
    /\ \/ /\ page' = "open"
          /\ calls' = Append(calls, Call("new_page", TRUE))
          /\ pc' = "goto"
          /\ UNCHANGED exc
       \/ /\ exc' = << "Error" >>
          /\ calls' = Append(calls, Call("new_page", FALSE))
          /\ pc' = "exit"
          /\ UNCHANGED page
    /\ UNCHANGED << check, env, dirs, files, app_url, output_dir, playwright,
                    browser, log, written, observed, rets >>

(***************************************************************************)
(* page.goto(app_url): shortcuts line 25; load lines 24-25, which print    *)
(* "Navigating to app..." first.                                           *)
(***************************************************************************)
Goto ==
    /\ pc = "goto"
    /\ log' = IF check = "load" THEN Append(log, << "Navigating to app..." >>) ELSE log
    /\ \/ /\ calls' = Append(calls, [op |-> "goto", ok |-> TRUE, url |-> app_url])
          /\ pc' = "wait"
          /\ UNCHANGED exc
       \/ \E e \in NavFaults :
          /\ calls' = Append(calls, [op |-> "goto", ok |-> FALSE, url |-> app_url])
          /\ exc' = << e >>
          /\ pc' = "except"
    /\ UNCHANGED << check, env, dirs, files, app_url, output_dir, playwright,
                    browser, page, written, observed, rets >>

(***************************************************************************)
(* verify_shortcuts, the try body (lines 25-53).                           *)
(***************************************************************************)
\* line 28: page.wait_for_selector("text=Sonic Architect", timeout=10000)
WaitTimeoutMs == 10000

WaitForSelector ==
    /\ pc = "wait"
    /\ check = "shortcuts"
    /\ \/ /\ calls' = Append(calls, [op |-> "wait_for_selector", ok |-> TRUE,
                                     timeout |-> WaitTimeoutMs])
          /\ pc' = "aria"
          /\ UNCHANGED exc
       \/ \E e \in WaitFaults :
          /\ calls' = Append(calls, [op |-> "wait_for_selector", ok |-> FALSE,
                                     timeout |-> WaitTimeoutMs])
          /\ exc' = << e >>
          /\ pc' = "except"
    /\ UNCHANGED << check, env, dirs, files, app_url, output_dir, playwright,
                    browser, page, log, written, observed, rets >>

\* lines 38-43: locate the button, read aria-keyshortcuts, print it, assert it
CheckAria ==
    /\ pc = "aria"
    /\ \/ \E v \in AttrValues :
          /\ calls' = Append(calls, Call("get_attribute:aria-keyshortcuts", TRUE))
          /\ observed' = [observed EXCEPT !.aria = v]
          /\ log' = Append(log, << "aria-keyshortcuts: ", v >>)
          /\ IF AriaOk(v)
             THEN pc' = "title" /\ UNCHANGED exc
             ELSE pc' = "except" /\ exc' = << "AssertionError" >>
       \/ \E e \in WaitFaults :
          /\ calls' = Append(calls, Call("get_attribute:aria-keyshortcuts", FALSE))
          /\ exc' = << e >>
          /\ pc' = "except"
          /\ UNCHANGED << observed, log >>
    /\ UNCHANGED << check, env, dirs, files, app_url, output_dir, playwright,
                    browser, page, written, rets >>

\* lines 46-48: read title, print it, assert "Space" in title
CheckTitle ==
    /\ pc = "title"
    /\ \/ \E t \in AttrValues :
          /\ calls' = Append(calls, Call("get_attribute:title", TRUE))
          /\ observed' = [observed EXCEPT !.title = t]
          /\ log' = Append(log, << "title: ", t >>)
          /\ IF TitleCheck(t) = "ok"
             THEN pc' = "screenshot" /\ UNCHANGED exc
             ELSE pc' = "except" /\ exc' = << TitleCheck(t) >>
       \/ \E e \in WaitFaults :
          /\ calls' = Append(calls, Call("get_attribute:title", FALSE))
          /\ exc' = << e >>
          /\ pc' = "except"
          /\ UNCHANGED << observed, log >>
    /\ UNCHANGED << check, env, dirs, files, app_url, output_dir, playwright,
                    browser, page, written, rets >>

\* lines 51-53: screenshot to verification.png, print the success line
SaveVerification ==
    /\ pc = "screenshot"
    /\ check = "shortcuts"
    /\ \/ /\ calls' = Append(calls, Call("screenshot:verification.png", TRUE))
          /\ Screenshot("verification.png")
          /\ log' = Append(log, << "Verification successful. Screenshot saved to ",
                                   Append(output_dir, "verification.png") >>)
          /\ pc' = "finally"
          /\ UNCHANGED exc
       \/ \E e \in NavFaults :
          /\ calls' = Append(calls, Call("screenshot:verification.png", FALSE))
          /\ exc' = << e >>
          /\ pc' = "except"
          /\ UNCHANGED << files, written, log >>
    /\ UNCHANGED << check, env, dirs, app_url, output_dir, playwright, browser,
                    page, observed, rets >>

\* mutant: the handler logs and captures but does not re-raise
ExceptShortcutsSwallow ==
    /\ pc = "except"
    /\ check = "shortcuts"
    /\ \/ /\ calls' = Append(calls, Call("screenshot:error.png", TRUE))
          /\ Screenshot("error.png")
          /\ log' = log \o << << "Verification failed: ", exc[Len(exc)] >>,
                              << "Error screenshot saved to ",
                                 Append(output_dir, "error.png") >> >>
          /\ exc' = <<>>
       \/ \E e \in NavFaults :
          /\ calls' = Append(calls, Call("screenshot:error.png", FALSE))
          /\ log' = Append(log, << "Verification failed: ", exc[Len(exc)] >>)
          /\ exc' = Append(exc, e)
          /\ UNCHANGED << files, written >>
    /\ pc' = "finally"
    /\ UNCHANGED << check, env, dirs, app_url, output_dir, playwright, browser,
                    page, observed, rets >>

\* mutant: the handler logs and re-raises without the diagnostic screenshot
ExceptShortcutsNoCapture ==
    /\ pc = "except"
    /\ check = "shortcuts"
    /\ log' = Append(log, << "Verification failed: ", exc[Len(exc)] >>)
    /\ pc' = "finally"
    /\ UNCHANGED << check, env, dirs, files, app_url, output_dir, playwright,
                    browser, page, exc, calls, written, observed, rets >>

\* mutant: the handler prints the "saved" line before taking the screenshot
ExceptShortcutsLogFirst ==
    /\ pc = "except"
    /\ check = "shortcuts"
    /\ log' = log \o << << "Verification failed: ", exc[Len(exc)] >>,
                        << "Error screenshot saved to ",
                           Append(output_dir, "error.png") >> >>
    /\ \/ /\ calls' = Append(calls, Call("screenshot:error.png", TRUE))
          /\ Screenshot("error.png")
          /\ UNCHANGED exc
       \/ \E e \in NavFaults :
          /\ calls' = Append(calls, Call("screenshot:error.png", FALSE))
          /\ exc' = Append(exc, e)
          /\ UNCHANGED << files, written >>
    /\ pc' = "finally"
    /\ UNCHANGED << check, env, dirs, app_url, output_dir, playwright, browser,
                    page, observed, rets >>

\* lines 55-60: except Exception as e: print, screenshot error.png, print, raise.
\* A fault of the screenshot leaves the handler with a new exception whose
\* __context__ is the one being handled; the second print and the raise are skipped.
ExceptShortcuts ==
    /\ pc = "except"
    /\ check = "shortcuts"
    /\ \/ /\ calls' = Append(calls, Call("screenshot:error.png", TRUE))
          /\ Screenshot("error.png")
          /\ log' = log \o << << "Verification failed: ", exc[Len(exc)] >>,
                              << "Error screenshot saved to ",
                                 Append(output_dir, "error.png") >> >>
          /\ UNCHANGED exc
       \/ \E e \in NavFaults :
          /\ calls' = Append(calls, Call("screenshot:error.png", FALSE))
          /\ log' = Append(log, << "Verification failed: ", exc[Len(exc)] >>)
          /\ exc' = Append(exc, e)
          /\ UNCHANGED << files, written >>
    /\ pc' = "finally"
    /\ UNCHANGED << check, env, dirs, app_url, output_dir, playwright, browser,
                    page, observed, rets >>

(***************************************************************************)
(* verify_waveform_animation, the try body (lines 24-41).                  *)
(***************************************************************************)
\* line 28: page.wait_for_load_state("networkidle")
WaitForLoadState ==
    /\ pc = "wait"
    /\ check = "load"
    /\ \/ /\ calls' = Append(calls, Call("wait_for_load_state", TRUE))
          /\ pc' = "header"
          /\ UNCHANGED exc
       \/ \E e \in WaitFaults :
          /\ calls' = Append(calls, Call("wait_for_load_state", FALSE))
          /\ exc' = << e >>
          /\ pc' = "except"
    /\ UNCHANGED << check, env, dirs, files, app_url, output_dir, playwright,
                    browser, page, log, written, observed, rets >>

\* mutant: the two arms of the visibility branch print the same line
HeaderLineAlwaysFound(visible) == << "Header found. App is running." >>

\* the line printed for the outcome of header.is_visible() (lines 33-36)
HeaderLine(visible) ==
    IF visible THEN << "Header found. App is running." >> ELSE << "Header NOT found." >>

\* lines 30-36: print, locate the heading, is_visible(), print the outcome
CheckHeader ==
    /\ pc = "header"
    /\ \/ \E visible \in BOOLEAN :
          /\ calls' = Append(calls, Call("is_visible", TRUE))
          /\ observed' = [observed EXCEPT !.header = visible]
          /\ log' = log \o << << "Checking for header..." >>, HeaderLine(visible) >>
          /\ pc' = "screenshot"
          /\ UNCHANGED exc
       \/ \E e \in NavFaults :
          /\ calls' = Append(calls, Call("is_visible", FALSE))
          /\ log' = Append(log, << "Checking for header..." >>)
          /\ exc' = << e >>
          /\ pc' = "except"
          /\ UNCHANGED observed
    /\ UNCHANGED << check, env, dirs, files, app_url, output_dir, playwright,
                    browser, page, written, rets >>

\* lines 39-41: screenshot to app_loaded.png, print the saved path
SaveAppLoaded ==
    /\ pc = "screenshot"
    /\ check = "load"
    /\ \/ /\ calls' = Append(calls, Call("screenshot:app_loaded.png", TRUE))
          /\ Screenshot("app_loaded.png")
          /\ log' = Append(log, << "Screenshot saved to ",
                                   Append(output_dir, "app_loaded.png") >>)
          /\ pc' = "finally"
          /\ UNCHANGED exc
       \/ \E e \in NavFaults :
          /\ calls' = Append(calls, Call("screenshot:app_loaded.png", FALSE))
          /\ exc' = << e >>
          /\ pc' = "except"
          /\ UNCHANGED << files, written, log >>
    /\ UNCHANGED << check, env, dirs, app_url, output_dir, playwright, browser,
                    page, observed, rets >>

\* mutant: the handler logs the exception and does not re-raise
ExceptLoadSwallow ==
    /\ pc = "except"
    /\ check = "load"
    /\ log' = Append(log, << "Error: ", exc[Len(exc)] >>)
    /\ exc' = <<>>
    /\ pc' = "finally"
    /\ UNCHANGED << check, env, dirs, files, app_url, output_dir, playwright,
                    browser, page, calls, written, observed, rets >>

\* lines 43-45: except Exception as e: print, raise
ExceptLoad ==
    /\ pc = "except"
    /\ check = "load"
    /\ log' = Append(log, << "Error: ", exc[Len(exc)] >>)
    /\ pc' = "finally"
    /\ UNCHANGED << check, env, dirs, files, app_url, output_dir, playwright,
                    browser, page, exc, calls, written, observed, rets >>

(***************************************************************************)
(* Both scripts: finally: browser.close(), then the with block is left and *)
(* the function returns or the exception reaches the caller.               *)
(***************************************************************************)
Finally ==
    /\ pc = "finally"
    /\ browser' = "closed"
    /\ calls' = Append(calls, Call("close", TRUE))
    /\ pc' = "exit"
    /\ UNCHANGED << check, env, dirs, files, app_url, output_dir, playwright, page,
                    exc, log, written, observed, rets >>

\* sync_playwright().__exit__: the driver is stopped; no call is made on the browser
ExitWith ==
    /\ pc = "exit"
    /\ playwright' = "stopped"
    /\ pc' = "done"
    /\ UNCHANGED << check, env, dirs, files, app_url, output_dir, browser, page,
                    exc, log, calls, written, observed, rets >>

Next ==
    \/ ResolveConfig
    \/ StartPlaywright
    \/ Launch
    \/ NewPage
    \/ Goto
    \/ WaitForSelector
    \/ CheckAria
    \/ CheckTitle
    \/ SaveVerification
    \/ ExceptShortcuts
    \/ WaitForLoadState
    \/ CheckHeader
    \/ SaveAppLoaded
    \/ ExceptLoad
    \/ Finally
    \/ ExitWith

Spec == Init /\ [][Next]_vars

(***************************************************************************)
(* resolve_output_dir called repeatedly in one environment.                *)
(***************************************************************************)
InitDir ==
    /\ check = "shortcuts"
    /\ InitEnvFs
    /\ InitLocals
    /\ pc = "harness"

CallResolveOutputDir ==
    /\ pc = "harness"
    /\ Len(rets) < MaxCalls
    /\ LET r == ResolveOutputDir(env, dirs, files) IN
       /\ dirs' = r.dirs
       /\ rets' = Append(rets, [raised |-> r.raised, path |-> r.path,
                                dirsBefore |-> dirs, filesBefore |-> files])
    /\ UNCHANGED << check, env, files, pc, app_url, output_dir, playwright, browser,
                    page, exc, log, calls, written, observed >>

NextDir == CallResolveOutputDir

SpecDir == InitDir /\ [][NextDir]_vars

\* the process result once the run has ended: exit status 0, or a traceback
Result == IF exc = <<>> THEN "pass" ELSE "fail"

(***************************************************************************)
(* Vocabulary of the properties.                                           *)
(***************************************************************************)
Done == pc = "done"

Ok(op) == \E i \in DOMAIN calls : calls[i].op = op /\ calls[i].ok

Faulted(op) == \E i \in DOMAIN calls : calls[i].op = op /\ ~calls[i].ok

Made(op) == \E i \in DOMAIN calls : calls[i].op = op

LogHas(line) ==
    \E i \in DOMAIN log :
        /\ Len(log[i]) = Len(line)
        /\ log[i][1] = line[1]
        /\ log[i] = line

LogHasKind(head) == \E i \in DOMAIN log : log[i][1] = head

\* the text t has "Space" as a contiguous substring
ContainsSpace(t) == \E i \in 1..Len(t) : i + 4 <= Len(t) /\ SubSeq(t, i, i + 4) = Space

AriaMismatch == Ok("get_attribute:aria-keyshortcuts") /\ observed.aria # Some(Space)

TitleBad ==
    /\ Ok("get_attribute:title")
    /\ (~observed.title.some \/ ~ContainsSpace(observed.title.val))

\* the steps of the try body of each script
TryOps ==
    IF check = "shortcuts"
    THEN { "goto", "wait_for_selector", "get_attribute:aria-keyshortcuts",
           "get_attribute:title", "screenshot:verification.png" }
    ELSE { "goto", "wait_for_load_state", "is_visible", "screenshot:app_loaded.png" }

\* the indices of the calls whose step failed: the call raised, or the
\* assertion on the value it returned failed
FailIdx ==
    { i \in DOMAIN calls :
        \/ ~calls[i].ok
        \/ calls[i].op = "get_attribute:aria-keyshortcuts" /\ AriaMismatch
        \/ calls[i].op = "get_attribute:title" /\ TitleBad }

\* a step after the page was opened failed
TryFailure == \E i \in FailIdx : calls[i].op \in TryOps

NoStepFailed == FailIdx = {}

ScreenshotOps ==
    { "screenshot:verification.png", "screenshot:error.png", "screenshot:app_loaded.png" }

\* a screenshot was attempted after a failed step
DiagnosticAttempt ==
    \E i \in FailIdx : \E j \in DOMAIN calls : j > i /\ calls[j].op \in ScreenshotOps

ErrorPng == Append(output_dir, "error.png")

VerificationPng == Append(output_dir, "verification.png")

AppLoadedPng == Append(output_dir, "app_loaded.png")

(***************************************************************************)
(* C1.                                                                     *)
(***************************************************************************)
\* C1: in both checks, a run that launched a browser never ends with the
\* browser still open: at the end of the run the browser has been closed.
C1_BrowserClosedOnEveryExit == Done /\ browser # "none" => browser = "closed"

\* the part of C1 the code keeps: once the page is open (the try is entered),
\* the browser is closed at the end of the run
C1_ClosedOncePageOpen == Done /\ page = "open" => browser = "closed"

(***************************************************************************)
(* C2.                                                                     *)
(***************************************************************************)
\* C2 (as stated): in the shortcuts check, every run in which a step after the
\* page was opened failed ends with error.png saved, the failure logged and a
\* failing result.
C2_FailureSavesErrorPng ==
    Done /\ check = "shortcuts" /\ TryFailure =>
        /\ ErrorPng \in written
        /\ LogHasKind("Verification failed: ")
        /\ Result = "fail"

\* C2 (amended): in the shortcuts check, every run in which a step after the
\* page was opened failed logs the failure, attempts the error.png screenshot
\* and ends in failure; when that screenshot succeeds, error.png is saved, the
\* "saved" line is logged and the original exception is the one re-raised;
\* when it faults, error.png is not saved.
C2_FailureAttemptsErrorPng ==
    Done /\ check = "shortcuts" /\ TryFailure =>
        /\ LogHasKind("Verification failed: ")
        /\ Made("screenshot:error.png")
        /\ Result = "fail"
        /\ Ok("screenshot:error.png") =>
              /\ ErrorPng \in written
              /\ LogHas(<< "Error screenshot saved to ", ErrorPng >>)
              /\ Len(exc) = 1
              /\ LogHas(<< "Verification failed: ", exc[1] >>)
        /\ Faulted("screenshot:error.png") => ErrorPng \notin written

C2_Witness ==
    /\ Done
    /\ check = "shortcuts"
    /\ AriaMismatch
    /\ ErrorPng \in written
    /\ exc = << "AssertionError" >>

(***************************************************************************)
(* C3.                                                                     *)
(***************************************************************************)
\* C3: in the load check, every run in which navigate, the network-idle wait,
\* the heading lookup or the screenshot raised has logged that exception and
\* ends in failure with that same exception; none becomes a clean return.
C3_LoadFailureLoggedAndReraised ==
    Done /\ check = "load" /\ TryFailure =>
        /\ Result = "fail"
        /\ Len(exc) = 1
        /\ LogHas(<< "Error: ", exc[1] >>)

C3_Witness ==
    /\ Done
    /\ check = "load"
    /\ Faulted("wait_for_load_state")
    /\ exc = << "TimeoutError" >>

(***************************************************************************)
(* C4.                                                                     *)
(***************************************************************************)
\* C4: in the shortcuts check, a run in which every automation step succeeded,
\* aria-keyshortcuts was "Space" and the title contained "Space" has written
\* verification.png, has not written error.png and returns cleanly.
C4_ShortcutsHappyPath ==
    /\ Done
    /\ check = "shortcuts"
    /\ Ok("new_page")
    /\ \A i \in DOMAIN calls : calls[i].ok
    /\ ~AriaMismatch
    /\ ~TitleBad
    => /\ VerificationPng \in written
       /\ ErrorPng \notin written
       /\ ~Made("screenshot:error.png")
       /\ Result = "pass"
       /\ LogHas(<< "Verification successful. Screenshot saved to ", VerificationPng >>)

C4_Witness ==
    /\ Done
    /\ check = "shortcuts"
    /\ observed.aria = Some(Space)
    /\ observed.title = Some(TitlePlaySpace)
    /\ VerificationPng \in written
    /\ Result = "pass"

(***************************************************************************)
(* C5.                                                                     *)
(***************************************************************************)
\* C5: in the load check, a run in which no call raised writes app_loaded.png
\* and returns cleanly whether or not the heading was visible; the log is the
\* same in both cases but for the heading line, which is "Header NOT found."
\* when the heading is absent or not visible.
C5_HeaderAbsentNonFatal ==
    /\ Done
    /\ check = "load"
    /\ Ok("is_visible")
    /\ \A i \in DOMAIN calls : calls[i].ok
    => /\ Result = "pass"
       /\ written = { AppLoadedPng }
       /\ log = << << "Navigating to app..." >>,
                   << "Checking for header..." >>,
                   IF observed.header THEN << "Header found. App is running." >>
                                      ELSE << "Header NOT found." >>,
                   << "Screenshot saved to ", AppLoadedPng >> >>

C5_Witness ==
    /\ Done
    /\ check = "load"
    /\ Ok("is_visible")
    /\ ~observed.header
    /\ AppLoadedPng \in written
    /\ Result = "pass"

(***************************************************************************)
(* C6.                                                                     *)
(***************************************************************************)
\* C6: in both checks the URL navigated to is the value of APP_URL when it is
\* set and non-empty, and http://localhost:3000 when it is unset or empty.
C6_UrlDefaultsWhenUnsetOrEmpty ==
    \A i \in DOMAIN calls :
        calls[i].op = "goto" =>
            calls[i].url = IF env.APP_URL.some /\ env.APP_URL.val # ""
                           THEN env.APP_URL.val
                           ELSE "http://localhost:3000"

\* what the code does: the default is used only when APP_URL is unset
C6_UrlDefaultsWhenUnset ==
    \A i \in DOMAIN calls :
        calls[i].op = "goto" =>
            calls[i].url = IF env.APP_URL.some
                           THEN env.APP_URL.val
                           ELSE "http://localhost:3000"

(***************************************************************************)
(* C7, checked under SpecDir.                                              *)
(***************************************************************************)
\* the filesystem's directories after the i-th call of resolve_output_dir
DirsAfter(i) == IF i < Len(rets) THEN rets[i + 1].dirsBefore ELSE dirs

\* the i-th call returned its directory, which then exists; it created nothing
\* but that directory and its ancestors; a repeated call returns the same path
\* and changes nothing
ResolveCallGood(i) ==
    /\ ~rets[i].raised
    /\ rets[i].path \in DirsAfter(i)
    /\ DirsAfter(i) \ rets[i].dirsBefore \subseteq Prefixes(rets[i].path)
    /\ rets[i].dirsBefore \subseteq DirsAfter(i)
    /\ files = rets[i].filesBefore
    /\ ~env.VERIFICATION_OUTPUT_DIR.some =>
          rets[i].path = << "tmp", "sonic-architect-verification" >>
    /\ i > 1 => /\ rets[i].path = rets[1].path
                /\ DirsAfter(i) = rets[i].dirsBefore

\* no regular file stands at the path p or at one of its ancestors
Unobstructed(p, f) == \A q \in Prefixes(p) : q \notin f

\* C7 (as stated): for any environment state and any initial filesystem state,
\* every call of resolve_output_dir returns a directory that exists after the
\* call, repeated calls return the same path without failing and change
\* nothing, and with VERIFICATION_OUTPUT_DIR unset the result is
\* <tmp>/sonic-architect-verification.
C7_ResolveIdempotentAnyFs == \A i \in DOMAIN rets : ResolveCallGood(i)

\* C7 (amended): the same, for the initial filesystem states in which neither
\* the resolved path nor one of its ancestors is a regular file; the resolved
\* path itself is the same on every call in any filesystem state.
C7_ResolveIdempotentUnobstructed ==
    \A i \in DOMAIN rets :
        /\ rets[i].path = rets[1].path
        /\ Unobstructed(rets[i].path, rets[1].filesBefore) => ResolveCallGood(i)

C7_Witness ==
    /\ pc = "harness"
    /\ Len(rets) >= 2
    /\ ~rets[1].raised /\ ~rets[2].raised
    /\ rets[1].path \notin rets[1].dirsBefore
    /\ Parent(rets[1].path) \notin rets[1].dirsBefore
    /\ rets[2].path \in rets[2].dirsBefore

StepsOf(c) ==
    IF c = "shortcuts"
    THEN << "launch", "new_page", "goto", "wait_for_selector",
            "get_attribute:aria-keyshortcuts", "get_attribute:title",
            "screenshot:verification.png" >>
    ELSE << "launch", "new_page", "goto", "wait_for_load_state", "is_visible",
            "screenshot:app_loaded.png" >>

\* the check steps made so far: the calls but for diagnostic capture and close
StepCalls == SelectSeq(calls, LAMBDA c : c.op \notin { "screenshot:error.png", "close" })

\* each step at most once, in program order, each after its predecessor succeeded
StepsInOrder ==
    /\ \A i, j \in DOMAIN calls : i # j => calls[i].op # calls[j].op
    /\ Len(StepCalls) <= Len(StepsOf(check))
    /\ \A i \in DOMAIN StepCalls :
          /\ StepCalls[i].op = StepsOf(check)[i]
          /\ i < Len(StepCalls) => i \notin FailIdx /\ StepCalls[i].ok

\* after the first failed step only diagnostic capture and close are made
NoStepAfterFailure ==
    \A i \in FailIdx : \A j \in DOMAIN calls :
        j > i => calls[j].op \in { "screenshot:error.png", "close" }

\* the run ends as a clean return exactly when no step failed
PassXorFail == Done /\ Ok("launch") => (Result = "pass" <=> NoStepFailed)

\* C9: each check runs its steps at most once, in order, none before its
\* predecessor has completed; the first failing step is followed only by
\* diagnostic capture and browser close; every run that launched a browser
\* ends with the browser closed, as a pass or as a failure, never both.
C9_StateMachine ==
    /\ StepsInOrder
    /\ NoStepAfterFailure
    /\ PassXorFail
    /\ Done /\ Ok("launch") => browser = "closed"

\* the part of C9 the code keeps: everything but the close of a browser
\* whose page could not be opened
C9_StateMachineOncePageOpen ==
    /\ StepsInOrder
    /\ NoStepAfterFailure
    /\ PassXorFail
    /\ Done /\ Ok("new_page") => browser = "closed"

(***************************************************************************)
(* C10.                                                                    *)
(***************************************************************************)
\* C10: in the shortcuts check, a run whose error.png screenshot faulted in
\* the failure handler still closes the browser and ends in failure, without
\* the "Error screenshot saved" line and without error.png written; every run
\* with a failed step closes the browser and ends in failure.
C10_CaptureFaultStillClosesAndFails ==
    /\ Done /\ check = "shortcuts" /\ Faulted("screenshot:error.png") =>
          /\ browser = "closed"
          /\ Result = "fail"
          /\ ~LogHasKind("Error screenshot saved to ")
          /\ ErrorPng \notin written
          /\ LogHasKind("Verification failed: ")
    /\ Done /\ check = "shortcuts" /\ TryFailure =>
          /\ browser = "closed"
          /\ Result = "fail"

C10_Witness ==
    /\ Done
    /\ check = "shortcuts"
    /\ TitleBad
    /\ Faulted("screenshot:error.png")
    /\ browser = "closed"
    /\ ErrorPng \notin written
    /\ exc = << "AssertionError", "Error" >>

====
